---- MODULE Spec2Model ----
(***************************************************************************)
(* hpcbench campaign driver (hpcbench/driver.py): the tree of campaign     *)
(* nodes campaign -> host -> tag -> benchmark -> category -> run, the      *)
(* hpcbench.yaml report written by write_yaml_report, and the three ways   *)
(* a campaign is driven: execution (no flag), metrics re-extraction        *)
(* (no_exec) and plotting (no_exec, plot).                                 *)
(*                                                                         *)
(* The file system below the campaign directory is the state: the set of   *)
(* directories, the hpcbench.yaml of every node and run, the metrics.json  *)
(* of every category.  Python dicts are functions over their key set,      *)
(* lists are sequences.  A node directory is named by the sequence of      *)
(* child identifiers from the campaign directory; a run directory by its   *)
(* category and the relative path name/uuid.                               *)
(***************************************************************************)
EXTENDS Integers, Sequences, FiniteSets, TLC

VARIABLES
    inv,          \* number of driver invocations started so far
    kwargs,       \* keyword flags of the current invocation
    plugin,       \* Benchmark subclass in effect for the current invocation
    stack,        \* active node calls, innermost last
    dirs,         \* node directories that exist
    report,       \* node directory -> content of its hpcbench.yaml
    runDirs,      \* run directories that exist
    runReport,    \* run directory -> content of its hpcbench.yaml
    metricsJson,  \* category directory -> content of its metrics.json
    uuid,         \* uuid4() values handed out so far
    log,          \* calls to collaborators and file writes of the invocation
    error,        \* exception that ended the invocation, "none" otherwise
    prevAborted,  \* the invocation before the current one was an execution
                  \* that ended with an exception
    cwd,          \* os.getcwd(): the directory names from the directory the
                  \* driver is called in
    hostName,     \* HostDriver.name of the host driver studied on its own
    networkTags,  \* campaign.network.tags of that host driver
    hostChildren, \* value of its property `children`, once computed
    now,          \* datetime.datetime.now(), in hours
    files,        \* campaign files: path -> configuration the file holds
    driver,       \* the CampaignDriver constructed last
    funcResult,   \* value returned by a function under write_yaml_report
    yamlFile,     \* what was written to hpcbench.yaml where it is called
    outcome       \* what the wrapper of that function returned or raised

\* the host driver studied on its own
hostVars == <<hostName, networkTags, hostChildren>>

\* what a campaign invocation leaves alone
\* the construction of CampaignDriver studied on its own
campaignVars == <<now, files, driver>>

\* write_yaml_report studied on its own
wrapperVars == <<funcResult, yamlFile, outcome>>

otherVars == <<hostVars, campaignVars, wrapperVars>>

\* the campaign directory and the invocation in progress
driverVars == <<inv, kwargs, plugin, stack, dirs, report, runDirs, runReport,
                metricsJson, uuid, log, error, prevAborted, cwd>>

vars == <<driverVars, otherVars>>

---------------------------------------------------------------------------
(* Bounds of the exploration *)

MaxInvocations == 2
MaxUuid == 6

---------------------------------------------------------------------------
(* Python dict and list helpers *)

Get(d, k, default) == IF k \in DOMAIN d THEN d[k] ELSE default

\* dict.update: keys of b win
Update(a, b) ==
    [k \in DOMAIN a \cup DOMAIN b |-> IF k \in DOMAIN b THEN b[k] ELSE a[k]]

\* dict.pop(k, None)
Pop(d, k) == [x \in DOMAIN d \ {k} |-> d[x]]

Put(d, k, v) == [x \in DOMAIN d \cup {k} |-> IF x = k THEN v ELSE d[x]]

Range(s) == {s[i] : i \in 1..Len(s)}

\* every ordering in which a Python set can be iterated
Orderings(S) ==
    {s \in [1..Cardinality(S) -> S] : \A i, j \in 1..Cardinality(S) :
                                          i # j => s[i] # s[j]}

---------------------------------------------------------------------------
(* The campaign configuration and the benchmark plugin                     *)

Hostname == "web-01"

\* campaign.network.tags: the items (tag, list of rules) in iteration order,
\* a rule being a dict given by its items (mode, value) in iteration order.
\* The compiled pattern of a 'match' rule is given by the set of names it
\* matches, the value of a 'nodes' rule is its set of host names.
NetworkTags ==
    << <<"gpu", << << <<"match", {"gpu-01", "gpu-02"}>> >>,
                   << <<"nodes", {"web-02"}>> >> >> >>,
       <<"db",  << << <<"nodes", {"db-01"}>> >> >> >> >>

\* campaign.benchmarks: tag -> benchmark name -> configuration
CampaignBenchmarks ==
    ("*" :> <<"b1">>) @@ ("gpu" :> <<>>) @@ ("db" :> <<>>)

BenchmarkName == "b1"

\* Benchmark.execution_matrix.  An argument of a command is a sequence of
\* parts, the part "{outdir}" being the placeholder of the output directory.
ExecutionMatrix ==
    << [category |-> "foo", command |-> << <<"foo">>, <<"--out=", "{outdir}">> >>,
        metas |-> 1],
       [category |-> "bar", command |-> << <<"bar">> >>, metas |-> 1,
        name |-> "n", environment |-> [OMP |-> 2]],
       [category |-> "foo", command |-> << <<"foo">> >>, metas |-> 4] >>

\* MetricsExtractor.metrics of the extractors: name -> Metric(unit, type)
Declared1 == [a |-> [unit |-> "s", type |-> "float"]]
Declared2 == [a |-> [unit |-> "s", type |-> "float"],
              b |-> [unit |-> "s", type |-> "int"]]

FloatV(x) == [type |-> "float", v |-> x]
IntV(x)   == [type |-> "int", v |-> x]
StrV(x)   == [type |-> "str", v |-> x]

\* MetricsExtractor.extract(outdir, metas) of an extractor of the given
\* behaviour: the returned dict, as its items in iteration order.
Extract(kind, metas) ==
    CASE kind = "v1"      -> << <<"a", FloatV(metas)>> >>
      [] kind = "v2"      -> << <<"a", FloatV(metas + 10)>>, <<"b", IntV(2)>> >>
      [] kind = "both_nt" -> << <<"zz", FloatV(0)>>, <<"a", StrV(0)>> >>
      [] kind = "both_tn" -> << <<"a", StrV(0)>>, <<"zz", FloatV(0)>> >>

Extractor(kind) ==
    [metrics |-> IF kind = "v2" THEN Declared2 ELSE Declared1, kind |-> kind]

\* A value of metrics_extractors: one extractor, or a list of extractors
One(e)   == [one |-> e]
List(es) == [list |-> es]

PlotsFoo == <<"p1", "p2">>

\* The Benchmark subclasses an invocation may run with: the execution
\* matrix is the same, metrics_extractors and plots differ.
Plugins ==
    << [metrics_extractors |-> [foo |-> One(Extractor("v1")),
                               bar |-> List(<<Extractor("v1"), Extractor("v2")>>)],
       plots |-> [foo |-> PlotsFoo, bar |-> <<>>]],
       [metrics_extractors |-> [foo |-> One(Extractor("v2")),
                               bar |-> List(<<Extractor("v2"), Extractor("v1")>>)],
       plots |-> [foo |-> PlotsFoo]],
       [metrics_extractors |-> [foo |-> One(Extractor("v1")),
                               bar |-> List(<<Extractor("v1"), Extractor("both_nt")>>)],
       plots |-> [foo |-> PlotsFoo, bar |-> <<>>]],
       [metrics_extractors |-> [foo |-> One(Extractor("both_tn")),
                               bar |-> One(Extractor("v1"))],
       plots |-> [foo |-> PlotsFoo, bar |-> <<>>]],
       [metrics_extractors |-> [foo |-> One(Extractor("v1"))],
       plots |-> [foo |-> PlotsFoo, bar |-> <<>>]] >>

\* exit statuses a command may end with
ExitStatuses == {0, 1}

\* keyword arguments the driver is called with
Execute   == {}
ReExtract == {"no_exec"}
Plot      == {"no_exec", "plot"}
Modes     == {Execute, ReExtract, Plot}

---------------------------------------------------------------------------
(* Node directories.  Len(path) tells the kind of the node: 0 campaign,    *)
(* 1 host, 2 tag, 3 benchmark, 4 category.                                 *)

CategoryDepth == 4

\* variant: the alias localhost is not looked at
RECURSIVE RuleItems_NoAlias(_, _, _, _, _)
RuleItems_NoAlias(host_name, items, k, tag, benchmarks) ==
    IF k > Len(items) THEN [tags |-> benchmarks, err |-> "none"]
    ELSE LET mode == items[k][1]
             kconfig == items[k][2]
         IN  CASE mode = "match" ->
                    RuleItems_NoAlias(host_name, items, k + 1, tag,
                              IF host_name \in kconfig
                              THEN benchmarks \cup {tag} ELSE benchmarks)
               [] mode = "nodes" ->
                    IF host_name \in kconfig
                    THEN [tags |-> benchmarks \cup {tag}, err |-> "none"]
                    ELSE RuleItems_NoAlias(host_name, items, k + 1, tag, benchmarks)
               [] OTHER -> [tags |-> benchmarks, err |-> "UnknownTagAssociation"]

\* HostDriver.children of the host driver of that name, the loop over the
\* items of one rule
RECURSIVE RuleItems(_, _, _, _, _)
RuleItems(host_name, items, k, tag, benchmarks) ==
    IF k > Len(items) THEN [tags |-> benchmarks, err |-> "none"]
    ELSE LET mode == items[k][1]
             kconfig == items[k][2]
             hostnames == {"localhost", host_name}
         IN  CASE mode = "match" ->
                    RuleItems(host_name, items, k + 1, tag,
                              IF \E host \in hostnames : host \in kconfig
                              THEN benchmarks \cup {tag} ELSE benchmarks)
               [] mode = "nodes" ->
                    IF hostnames \cap kconfig # {}
                    THEN [tags |-> benchmarks \cup {tag}, err |-> "none"]
                    ELSE RuleItems(host_name, items, k + 1, tag, benchmarks)
               [] OTHER -> [tags |-> benchmarks, err |-> "UnknownTagAssociation"]

\* HostDriver.children, the loop over the rules of one tag
RECURSIVE TagConfigs(_, _, _, _, _)
TagConfigs(host_name, configs, j, tag, benchmarks) ==
    IF j > Len(configs) THEN [tags |-> benchmarks, err |-> "none"]
    ELSE LET r == RuleItems(host_name, configs[j], 1, tag, benchmarks)
         IN  IF r.err # "none" \/ tag \in r.tags THEN r
             ELSE TagConfigs(host_name, configs, j + 1, tag, r.tags)

\* HostDriver.children, the loop over the tags
RECURSIVE HostTags(_, _, _, _)
HostTags(host_name, tags, i, benchmarks) ==
    IF i > Len(tags) THEN [tags |-> benchmarks, err |-> "none"]
    ELSE LET r == TagConfigs(host_name, tags[i][2], 1, tags[i][1], benchmarks)
         IN  IF r.err # "none" THEN r
             ELSE HostTags(host_name, tags, i + 1, r.tags)

\* HostDriver(campaign, name).children: the set returned, or the exception
HostDriverChildren(host_name, tags) == HostTags(host_name, tags, 1, {"*"})

\* BenchmarkDriver.children: the categories of the execution matrix
BenchmarkDriverChildren ==
    {ExecutionMatrix[i].category : i \in 1..Len(ExecutionMatrix)}

\* The `children` property of the node at path: the lists it may iterate
\* as (a set is iterated in an order of its own)
Children(path) ==
    CASE Len(path) = 0 -> {<<Hostname>>}
      [] Len(path) = 1 -> Orderings(HostDriverChildren(path[1], NetworkTags).tags)
      [] Len(path) = 2 -> {CampaignBenchmarks[path[2]]}
      [] Len(path) = 3 -> Orderings(BenchmarkDriverChildren)

\* variant: the children are computed afresh whatever the directory holds
EffectiveChildren_Fresh(path) == Children(path)

\* Enumerator._children: the children of the report when there is one
EffectiveChildren(path) ==
    IF path \in DOMAIN report THEN {report[path].children}
    ELSE Children(path)

---------------------------------------------------------------------------
(* write_yaml_report                                                       *)

Elapsed == "elapsed"

\* the report of a call that returned a list or a generator
ChildrenReport(children) ==
    [children |-> children, elapsed |-> Elapsed, date |-> inv]

\* the report of a call that returned a dict
DictReport(data) ==
    Update(data, [elapsed |-> Elapsed, date |-> inv])

\* variant: the report is written whatever the keyword arguments
WritesReport_Always == TRUE

\* whether the report is written to hpcbench.yaml
WritesReport == "no_exec" \notin kwargs

\* the strings an item of a list may be: StrV(k) is the k-th of them
StrNames == <<"a", "b">>

\* str(x) of an item of a list
Str(x) == IF x.type = "str" THEN StrNames[x.v] ELSE ToString(x.v)

\* variant: a value of another type gives a report of elapsed and date
Wrapper_NoTypeCheck(result) ==
    CASE result.type \in {"list", "generator"} ->
            [err |-> "none",
             report |-> ChildrenReport([i \in 1..Len(result.items) |->
                                           Str(result.items[i])])]
      [] result.type = "dict" ->
            [err |-> "none", report |-> DictReport(result.dict)]
      [] OTHER -> [err |-> "none", report |-> DictReport(<<>>)]

\* write_yaml_report._wrapper, from the value func returned to the report:
\* the report, or the exception raised
Wrapper(result) ==
    CASE result.type \in {"list", "generator"} ->
            [err |-> "none",
             report |-> ChildrenReport([i \in 1..Len(result.items) |->
                                           Str(result.items[i])])]
      [] result.type = "dict" ->
            [err |-> "none", report |-> DictReport(result.dict)]
      [] OTHER -> [err |-> "UnexpectedDataType", report |-> <<>>]

Event(op, at, arg) == [op |-> op, at |-> at, arg |-> arg]

---------------------------------------------------------------------------
(* Node calls                                                              *)

\* CampaignDriver.campaign_path
CampaignPath == "out"

\* pushd(path): the working directory inside the `with` block
Pushd(path) == Append(cwd, path)

\* a node call; back is the directory the pushd around the call goes back
\* to, saved the one the pushd around a run of the node goes back to
Frame(path, children, pc) ==
    [path |-> path, children |-> children, i |-> 1, yielded |-> <<>>,
     runs |-> <<>>, pc |-> pc, back |-> cwd, saved |-> cwd]

Top == stack[Len(stack)]

Running == stack # <<>>

SetTop(f) == [stack EXCEPT ![Len(stack)] = f]

\* variant: the exception is caught by the node call, which goes on to its
\* end
Raise_Swallowed(e) ==
    /\ stack' = SetTop([Top EXCEPT !.pc = "done"])
    /\ error' = e
    /\ cwd' = cwd

\* variant: the exception leaves the working directory where it is
Raise_NoRestore(e) ==
    /\ stack' = <<>>
    /\ error' = e
    /\ cwd' = cwd

\* the exception leaves every pushd and every write_yaml_report wrapper:
\* nothing is written on the way out
Raise(e) ==
    /\ stack' = <<>>
    /\ error' = e
    /\ cwd' = stack[1].back

\* first step of the call of the node at path
EnumeratorPc(children) == IF children = <<>> THEN "done" ELSE "loop"

\* variant: no_exec alone is not told from an execution
CategoryPc_NoReExtract ==
    IF "plot" \in kwargs THEN "plot" ELSE "loop"

\* variant: the plot flag is not looked at
CategoryPc_NoPlot ==
    IF "no_exec" \notin kwargs THEN "loop" ELSE "report"

CategoryPc ==
    IF "no_exec" \notin kwargs THEN "loop"
    ELSE IF "plot" \in kwargs THEN "plot"
    ELSE "report"

\* nothing computed yet by a host driver
Unset == [tags |-> {}, err |-> "unset"]

\* the host driver of the campaign, not studied on its own
HostIdle ==
    /\ hostName = Hostname
    /\ networkTags = NetworkTags
    /\ hostChildren = Unset

\* no function under write_yaml_report studied on its own
NoOutcome == [state |-> "none", report |-> <<>>, error |-> "none"]

WrapperIdle ==
    /\ funcResult = [type |-> "NoneType", items |-> <<>>, dict |-> <<>>]
    /\ yamlFile = <<>>
    /\ outcome = NoOutcome

\* an empty campaign directory
EmptyCampaign ==
    /\ plugin = 1
    /\ stack = <<>>
    /\ dirs = {}
    /\ report = <<>>
    /\ runDirs = {}
    /\ runReport = <<>>
    /\ metricsJson = <<>>
    /\ uuid = 0
    /\ log = <<>>
    /\ error = "none"
    /\ prevAborted = FALSE
    /\ cwd = <<>>

\* an empty campaign directory, no invocation yet
DriverInit ==
    /\ inv = 0
    /\ kwargs = Execute
    /\ EmptyCampaign

\* the campaign file the user wrote
SourceFile == "site.yaml"

\* templates of output_dir, without and with a directive of strftime
Templates == {"out", "out-%H"}

\* what a campaign file may hold: output_dir and the rest of it
Configs == [output_dir : Templates, version : {"v1", "v2"}]

NoConfig == [output_dir |-> "None", version |-> "None"]

\* no CampaignDriver constructed
NoDriver ==
    [state |-> "none", args |-> <<"None", "None">>, campaign_file |-> "None",
     campaign |-> NoConfig, existing_campaign |-> FALSE,
     campaign_path |-> "None", error |-> "none"]

\* the construction of the campaign driver, not studied on its own
CampaignIdle ==
    /\ now = 0
    /\ files = (SourceFile :> [output_dir |-> "out", version |-> "v1"])
    /\ driver = NoDriver

Init ==
    /\ DriverInit
    /\ HostIdle
    /\ CampaignIdle
    /\ WrapperIdle

\* CampaignDriver.__call__ up to the first child: enter the campaign
\* directory and start Enumerator.__call__
Start ==
    /\ ~Running
    /\ inv < MaxInvocations
    /\ \E kw \in Modes, p \in 1..Len(Plugins), children \in EffectiveChildren(<<>>) :
          /\ kw = Execute => uuid + Len(ExecutionMatrix) <= MaxUuid
          /\ kwargs' = kw
          /\ plugin' = p
          /\ stack' = <<Frame(<<>>, children, EnumeratorPc(children))>>
    /\ inv' = inv + 1
    /\ cwd' = Pushd(CampaignPath)
    /\ dirs' = dirs \cup {<<>>}
    /\ log' = <<>>
    /\ prevAborted' = (kwargs = Execute /\ error # "none")
    /\ error' = "none"
    /\ UNCHANGED <<report, runDirs, runReport, metricsJson, uuid, otherVars>>

\* variant: the report of a node is written with the children it is to call
\* when its call starts
EnterChild_WriteFirst ==
    /\ Running
    /\ Len(Top.path) < CategoryDepth
    /\ Top.pc = "loop"
    /\ LET child == Top.children[Top.i]
           path  == Append(Top.path, child)
       IN  /\ dirs' = dirs \cup {path}
           /\ cwd' = Pushd(child)
           /\ IF Len(path) = CategoryDepth
              THEN /\ stack' = Append(stack, Frame(path, <<>>, CategoryPc))
                   /\ UNCHANGED report
              ELSE \E children \in EffectiveChildren(path) :
                      /\ stack' = Append(stack,
                                      Frame(path, children, EnumeratorPc(children)))
                      /\ IF WritesReport
                         THEN report' = Put(report, path, ChildrenReport(children))
                         ELSE UNCHANGED report
    /\ UNCHANGED <<inv, kwargs, plugin, runDirs, runReport,
                   metricsJson, uuid, log, error, prevAborted, otherVars>>

\* Enumerator.__call__, one turn of the loop up to the call of the child
EnterChild ==
    /\ Running
    /\ Len(Top.path) < CategoryDepth
    /\ Top.pc = "loop"
    /\ LET child == Top.children[Top.i]
           path  == Append(Top.path, child)
       IN  /\ dirs' = dirs \cup {path}
           /\ cwd' = Pushd(child)
           /\ IF Len(path) = CategoryDepth
              THEN stack' = Append(stack, Frame(path, <<>>, CategoryPc))
              ELSE \E children \in EffectiveChildren(path) :
                      stack' = Append(stack,
                                      Frame(path, children, EnumeratorPc(children)))
    /\ UNCHANGED <<inv, kwargs, plugin, report, runDirs, runReport,
                   metricsJson, uuid, log, error, prevAborted, otherVars>>

\* write_yaml_report around a node call whose generator is exhausted, and
\* the rest of the turn of the loop of the caller
Return ==
    /\ Running
    /\ Top.pc = "done"
    /\ LET doc == ChildrenReport(Top.yielded)
       IN  IF WritesReport
           THEN /\ report' = Put(report, Top.path, doc)
                /\ log' = Append(log, Event("write", Top.path, doc.children))
           ELSE UNCHANGED <<report, log>>
    /\ cwd' = Top.back
    /\ IF Len(stack) = 1
       THEN stack' = <<>>
       ELSE LET caller == stack[Len(stack) - 1]
                i == caller.i + 1
            IN  stack' = Append(SubSeq(stack, 1, Len(stack) - 2),
                    [caller EXCEPT !.i = i,
                                   !.yielded = Append(@, Top.path[Len(Top.path)]),
                                   !.pc = IF i > Len(caller.children)
                                          THEN "done" ELSE "loop"])
    /\ UNCHANGED <<inv, kwargs, plugin, dirs, runDirs, runReport,
                   metricsJson, uuid, error, prevAborted, otherVars>>

---------------------------------------------------------------------------
(* MetricsDriver                                                           *)

\* dict(items), the last item of a name giving its value
DictOf(items) ==
    [n \in {items[i][1] : i \in 1..Len(items)} |->
        items[CHOOSE i \in 1..Len(items) :
                 /\ items[i][1] = n
                 /\ \A j \in (i + 1)..Len(items) : items[j][1] # n][2]]

\* variant: the type of the values is not checked
RECURSIVE CheckMetrics_NamesOnly(_, _, _)
CheckMetrics_NamesOnly(exposed_metrics, items, k) ==
    IF k > Len(items) THEN "none"
    ELSE IF items[k][1] \notin DOMAIN exposed_metrics THEN "UnexpectedMetric"
    ELSE CheckMetrics_NamesOnly(exposed_metrics, items, k + 1)

\* MetricsDriver.check_metrics: the exception raised, "none" without one
RECURSIVE CheckMetrics(_, _, _)
CheckMetrics(exposed_metrics, items, k) ==
    IF k > Len(items) THEN "none"
    ELSE LET name == items[k][1]
             value == items[k][2]
         IN  IF name \notin DOMAIN exposed_metrics THEN "UnexpectedMetric"
             ELSE IF value.type # exposed_metrics[name].type THEN "MetricType"
             ELSE CheckMetrics(exposed_metrics, items, k + 1)

\* the extractors of a category as a list
ExtractorList(registered) ==
    IF "list" \in DOMAIN registered THEN registered.list
    ELSE <<registered.one>>

\* MetricsDriver.__call__, the loop over the extractors from the k-th on:
\* the list report['metrics'][cat] it builds, the calls made, the exception
RECURSIVE ExtractLoop(_, _, _, _, _, _)
ExtractLoop(extractors, k, run, metas, metrics, calls) ==
    IF k > Len(extractors)
    THEN [err |-> "none", metrics |-> metrics, calls |-> calls]
    ELSE LET run_metrics == Extract(extractors[k].kind, metas)
             called == Append(calls, Event("extract", run,
                                           [k |-> k, metrics |-> run_metrics]))
             err == CheckMetrics(extractors[k].metrics, run_metrics, 1)
         IN  IF err # "none"
             THEN [err |-> err, metrics |-> metrics, calls |-> called]
             ELSE ExtractLoop(extractors, k + 1, run, metas,
                              Append(metrics, DictOf(run_metrics)), called)

\* MetricsDriver(campaign, benchmark)() in the run directory: the report it
\* returns, the calls made, the exception
MetricsDriver(run) ==
    LET loaded == runReport[run]
        cat == Get(loaded, "category", "None")
        all_extractors == Plugins[plugin].metrics_extractors
    IN  IF cat \notin DOMAIN all_extractors
        THEN [err |-> "NoExtractor", report |-> loaded, calls |-> <<>>]
        ELSE LET metrics == Get(loaded, "metrics", <<>>)
                 r == ExtractLoop(ExtractorList(all_extractors[cat]), 1, run,
                                  Get(loaded, "metas", "None"),
                                  Get(metrics, cat, <<>>), <<>>)
             IN  [err |-> r.err,
                  report |-> Put(loaded, "metrics", Put(metrics, cat, r.metrics)),
                  calls |-> r.calls]

---------------------------------------------------------------------------
(* BenchmarkCategoryDriver                                                 *)

Category == Top.path[CategoryDepth]

RunKey(run_dir) == [cat |-> Top.path, dir |-> run_dir]

\* variant: every entry of the execution matrix is run in every category
NextEntry_Unfiltered(i, category) == i

\* the next entry of the execution matrix of this category, from the i-th on
RECURSIVE NextEntry(_, _)
NextEntry(i, category) ==
    IF i > Len(ExecutionMatrix) THEN i
    ELSE IF Get(ExecutionMatrix[i], "category", "None") = category THEN i
    ELSE NextEntry(i + 1, category)

CurrentRun == RunKey(Top.runs[Len(Top.runs)])

\* execution branch: the loop over the execution matrix up to the call of
\* ExecutionDriver in the new run directory
BeginRun ==
    /\ Running
    /\ Len(Top.path) = CategoryDepth
    /\ Top.pc = "loop"
    /\ LET j == NextEntry(Top.i, Category)
       IN  IF j > Len(ExecutionMatrix)
           THEN /\ stack' = SetTop([Top EXCEPT !.i = j, !.pc = "gather"])
                /\ UNCHANGED <<uuid, runDirs, log, cwd>>
           ELSE LET run_dir == <<Get(ExecutionMatrix[j], "name", ""), uuid + 1>>
                IN  /\ uuid' = uuid + 1
                    /\ runDirs' = runDirs \cup {RunKey(run_dir)}
                    /\ log' = Append(log, Event("mkdir", RunKey(run_dir), j))
                    /\ cwd' = Pushd(run_dir)
                    /\ stack' = SetTop([Top EXCEPT !.i = j,
                                                   !.runs = Append(@, run_dir),
                                                   !.saved = cwd,
                                                   !.pc = "pre_execute"])
    /\ UNCHANGED <<inv, kwargs, plugin, dirs, report, runReport, metricsJson,
                   error, prevAborted, otherVars>>

\* ExecutionDriver.__call__: the hook Benchmark.pre_execute
PreExecute ==
    /\ Running
    /\ Top.pc = "pre_execute"
    /\ log' = Append(log, Event("pre_execute", CurrentRun, Top.i))
    /\ stack' = SetTop([Top EXCEPT !.pc = "spawn"])
    /\ UNCHANGED <<inv, kwargs, plugin, dirs, report, runDirs, runReport,
                   metricsJson, uuid, error, prevAborted, cwd,
                   otherVars>>

\* the argument list given to subprocess.Popen
PopenArgs(execution, run) == execution.command

\* ExecutionDriver.__call__: subprocess.Popen
Spawn ==
    /\ Running
    /\ Top.pc = "spawn"
    /\ LET execution == ExecutionMatrix[Top.i]
       IN  log' = Append(log, Event("spawn", CurrentRun,
                    [args |-> PopenArgs(execution, CurrentRun),
                     env  |-> Get(execution, "environment", "None")]))
    /\ stack' = SetTop([Top EXCEPT !.pc = "wait"])
    /\ UNCHANGED <<inv, kwargs, plugin, dirs, report, runDirs, runReport,
                   metricsJson, uuid, error, prevAborted, cwd,
                   otherVars>>

\* variant: the exit status reported is that of a success
ExecutionReport_Success(exit_status, execution) ==
    Update([exit_status |-> 0, benchmark |-> BenchmarkName], execution)

\* the dict ExecutionDriver.__call__ returns
ExecutionReport(exit_status, execution) ==
    Update([exit_status |-> exit_status, benchmark |-> BenchmarkName], execution)

\* ExecutionDriver.__call__: process.wait and the report of the run
Wait ==
    /\ Running
    /\ Top.pc = "wait"
    /\ \E exit_status \in ExitStatuses :
          LET doc == DictReport(ExecutionReport(exit_status, ExecutionMatrix[Top.i]))
          IN  /\ log' = Append(Append(log, Event("exit", CurrentRun, exit_status)),
                               Event("write_run", CurrentRun, "execution"))
              /\ runReport' = Put(runReport, CurrentRun, doc)
    /\ stack' = SetTop([Top EXCEPT !.pc = "metrics"])
    /\ UNCHANGED <<inv, kwargs, plugin, dirs, report, runDirs, metricsJson,
                   uuid, error, prevAborted, cwd,
                   otherVars>>

\* execution branch: MetricsDriver in the run directory, then the yield
Metrics ==
    /\ Running
    /\ Top.pc = "metrics"
    /\ LET r == MetricsDriver(CurrentRun)
       IN  IF r.err # "none"
           THEN /\ log' = log \o r.calls
                /\ Raise(r.err)
                /\ UNCHANGED runReport
           ELSE /\ log' = Append(log \o r.calls, Event("write_run", CurrentRun, "metrics"))
                /\ runReport' = Put(runReport, CurrentRun, DictReport(r.report))
                /\ stack' = SetTop([Top EXCEPT !.i = @ + 1,
                                               !.yielded = Append(@, Top.runs[Len(Top.runs)]),
                                               !.pc = "loop"])
                /\ cwd' = Top.saved
                /\ UNCHANGED error
    /\ UNCHANGED <<inv, kwargs, plugin, dirs, report, runDirs, metricsJson,
                   uuid, prevAborted, otherVars>>

\* re-extraction branch: self.report['children']
LoadReport ==
    /\ Running
    /\ Top.pc = "report"
    /\ IF Top.path \notin DOMAIN report
       THEN Raise("NotFound")
       ELSE /\ stack' = SetTop([Top EXCEPT
                          !.children = report[Top.path].children,
                          !.pc = IF report[Top.path].children = <<>>
                                 THEN "gather" ELSE "child"])
            /\ UNCHANGED <<error, cwd>>
    /\ UNCHANGED <<inv, kwargs, plugin, dirs, report, runDirs, runReport,
                   metricsJson, uuid, log, prevAborted, otherVars>>

\* re-extraction branch: one turn of the loop over the children
ReExtractRun ==
    /\ Running
    /\ Top.pc = "child"
    /\ LET child == Top.children[Top.i]
           run == RunKey(child)
       IN  IF run \notin DOMAIN runReport \/ run \notin runDirs
           THEN Raise("NotFound") /\ UNCHANGED <<log, runReport>>
           ELSE LET r == MetricsDriver(run)
                IN  /\ log' = log \o r.calls
                    /\ IF r.err # "none"
                       THEN Raise(r.err) /\ UNCHANGED runReport
                       ELSE /\ IF WritesReport
                               THEN runReport' = Put(runReport, run, DictReport(r.report))
                               ELSE UNCHANGED runReport
                            /\ stack' = SetTop([Top EXCEPT
                                   !.i = @ + 1,
                                   !.runs = Append(@, child),
                                   !.pc = IF Top.i + 1 > Len(Top.children)
                                          THEN "gather" ELSE "child"])
                            /\ UNCHANGED <<error, cwd>>
    /\ UNCHANGED <<inv, kwargs, plugin, dirs, report, runDirs, metricsJson,
                   uuid, prevAborted, otherVars>>

\* variant: the dict of an earlier extractor wins
RECURSIVE MergeMetrics_FirstWins(_, _, _)
MergeMetrics_FirstWins(metricss, k, gathered) ==
    IF k > Len(metricss) THEN gathered
    ELSE MergeMetrics_FirstWins(metricss, k + 1, Update(metricss[k], gathered))

\* gather_metrics: the merge of the metrics of a category
RECURSIVE MergeMetrics(_, _, _)
MergeMetrics(metricss, k, gathered) ==
    IF k > Len(metricss) THEN gathered
    ELSE MergeMetrics(metricss, k + 1, Update(gathered, metricss[k]))

\* variant: the command stays in the element
GatherRun_KeepCommand(run_dir) ==
    LET loaded == runReport[RunKey(run_dir)]
        data == Put(Pop(loaded, "category"), "id", run_dir)
        metrics == Get(data, "metrics", <<>>)
    IN  Put(data, "metrics",
            [cat \in DOMAIN metrics |-> MergeMetrics(metrics[cat], 1, <<>>)])

\* gather_metrics: the element of metrics.json of one run
GatherRun(run_dir) ==
    LET loaded == runReport[RunKey(run_dir)]
        data == Put(Pop(Pop(loaded, "category"), "command"), "id", run_dir)
        metrics == Get(data, "metrics", <<>>)
    IN  Put(data, "metrics",
            [cat \in DOMAIN metrics |-> MergeMetrics(metrics[cat], 1, <<>>)])

\* gather_metrics(runs), runs holding at most the list of this category
GatherMetrics ==
    /\ Running
    /\ Top.pc = "gather"
    /\ IF Top.runs = <<>>
       THEN UNCHANGED <<metricsJson, log>>
       ELSE /\ metricsJson' = Put(metricsJson, Top.path,
                                  [i \in 1..Len(Top.runs) |-> GatherRun(Top.runs[i])])
            /\ log' = Append(log, Event("gather", Top.path, Top.runs))
    /\ stack' = SetTop([Top EXCEPT !.pc = "done"])
    /\ UNCHANGED <<inv, kwargs, plugin, dirs, report, runDirs, runReport,
                   uuid, error, prevAborted, cwd,
                   otherVars>>

\* plot branch: generate_plot for every plot of the category
GeneratePlots ==
    /\ Running
    /\ Top.pc = "plot"
    /\ LET plots == Plugins[plugin].plots
       IN  IF Category \notin DOMAIN plots
           THEN Raise("TypeError") /\ UNCHANGED log
           ELSE IF plots[Category] # <<>> /\ Top.path \notin DOMAIN metricsJson
           THEN Raise("NotFound") /\ UNCHANGED log
           ELSE /\ log' = log \o [k \in 1..Len(plots[Category]) |->
                                   Event("plot", Top.path,
                                         [desc |-> plots[Category][k],
                                          metrics |-> metricsJson[Top.path]])]
                /\ stack' = SetTop([Top EXCEPT !.pc = "done"])
                /\ UNCHANGED <<error, cwd>>
    /\ UNCHANGED <<inv, kwargs, plugin, dirs, report, runDirs, runReport,
                   metricsJson, uuid, prevAborted, otherVars>>

Next ==
    \/ Start
    \/ EnterChild
    \/ Return
    \/ BeginRun
    \/ PreExecute
    \/ Spawn
    \/ Wait
    \/ Metrics
    \/ LoadReport
    \/ ReExtractRun
    \/ GatherMetrics
    \/ GeneratePlots

Spec == Init /\ [][Next]_vars

---------------------------------------------------------------------------
(* HostDriver.children on its own: every host name and every configuration *)
(* of the tags web and db within the bounds                                *)

MaxRules == 2

HostNames == {"web-01", "db-01"}

\* compiled patterns of 'match' rules, each given by the names it matches
\* among localhost, web-01, web-02, db-01: '^web.*' and '^db.*'
MatchValues == {{"web-01", "web-02"}, {"db-01"}}

\* host sets of 'nodes' rules
NodesValues == {{"db-01"}, {"localhost", "web-02"}}

\* the items a rule may hold, one of them of a mode that is not known
RuleItemSet ==
    ({"match"} \X MatchValues) \cup ({"nodes"} \X NodesValues)
        \cup {<<"regex", {"web-01"}>>}

\* the rules: dicts of one or two items, the modes being the keys
RuleSet ==
    {<<a>> : a \in RuleItemSet}
        \cup {x \in RuleItemSet \X RuleItemSet : x[1][1] # x[2][1]}

\* the lists of at most n rules
ConfigsUpTo(n) == UNION {[1..k -> RuleSet] : k \in 0..n}

HostInit ==
    /\ DriverInit
    /\ CampaignIdle
    /\ WrapperIdle
    /\ hostName \in HostNames
    /\ \E web \in ConfigsUpTo(MaxRules), db \in ConfigsUpTo(1) :
          networkTags = << <<"web", web>>, <<"db", db>> >>
    /\ hostChildren = Unset

\* the property HostDriver.children is read
ReadHostChildren ==
    /\ hostChildren = Unset
    /\ hostChildren' = HostDriverChildren(hostName, networkTags)
    /\ UNCHANGED <<hostName, networkTags, driverVars, campaignVars, wrapperVars>>

HostNext == ReadHostChildren

HostSpec == HostInit /\ [][HostNext]_vars

---------------------------------------------------------------------------
(* CampaignDriver.__init__ and the copy of the campaign file made by       *)
(* CampaignDriver.__call__, on their own                                   *)

MaxClock == 2

\* datetime.strftime: the hour replaces the directive
Strftime(template, hour) ==
    IF template = "out-%H" THEN "out-" \o ToString(hour) ELSE template

\* osp.join(campaign_path, YAML_CAMPAIGN_FILE)
CampaignYaml(campaign_path) == campaign_path \o "/campaign.yaml"

\* the campaign directories there may be
CampaignDirs == {Strftime(t, h) : t \in Templates, h \in 0..MaxClock}

CampaignInit ==
    /\ DriverInit
    /\ HostIdle
    /\ WrapperIdle
    /\ now = 0
    /\ \E c \in Configs : files = (SourceFile :> c)
    /\ driver = NoDriver

Tick ==
    /\ now < MaxClock
    /\ now' = now + 1
    /\ UNCHANGED <<files, driver, driverVars, hostVars, wrapperVars>>

\* the user changes the campaign file
EditSource ==
    /\ \E c \in Configs \ {files[SourceFile]} :
          files' = Put(files, SourceFile, c)
    /\ UNCHANGED <<now, driver, driverVars, hostVars, wrapperVars>>

\* CampaignDriver(campaign_file, campaign_path)
NewCampaignDriver ==
    /\ driver.state # "ready"
    /\ \E campaign_file \in {"None", SourceFile},
          campaign_path \in {"None"} \cup CampaignDirs :
          LET args == <<campaign_file, campaign_path>>
              file == IF campaign_path # "None"
                      THEN CampaignYaml(campaign_path) ELSE campaign_file
              raised(e) == [NoDriver EXCEPT !.state = "raised", !.args = args,
                                            !.error = e]
          IN  driver' =
                IF campaign_file # "None" /\ campaign_path # "None"
                THEN raised("EitherXor")
                ELSE IF file = "None" THEN raised("TypeError")
                ELSE IF file \notin DOMAIN files THEN raised("NotFound")
                ELSE [state |-> "ready", args |-> args, campaign_file |-> file,
                      campaign |-> files[file],
                      existing_campaign |-> campaign_path # "None",
                      campaign_path |->
                          IF campaign_path # "None" THEN campaign_path
                          ELSE Strftime(files[file].output_dir, now),
                      error |-> "none"]
    /\ UNCHANGED <<now, files, driverVars, hostVars, wrapperVars>>

\* CampaignDriver.__call__: the copy of the campaign file
CallCampaignDriver ==
    /\ driver.state = "ready"
    /\ files' = IF driver.existing_campaign THEN files
                ELSE Put(files, CampaignYaml(driver.campaign_path),
                         files[driver.campaign_file])
    /\ driver' = [driver EXCEPT !.state = "called"]
    /\ UNCHANGED <<now, driverVars, hostVars, wrapperVars>>

CampaignNext ==
    \/ Tick
    \/ EditSource
    \/ NewCampaignDriver
    \/ CallCampaignDriver

CampaignSpec == CampaignInit /\ [][CampaignNext]_vars

---------------------------------------------------------------------------
(* write_yaml_report on its own: a function that returns a value of any    *)
(* type, called with any keyword arguments                                 *)

MaxItems == 2

\* the items of a list: a number, the strings a and b
Items == {IntV(1), StrV(1), StrV(2)}

ListsUpTo(n) == UNION {[1..k -> Items] : k \in 0..n}

\* dicts a function may return, one of them with a key elapsed of its own
Dicts == {[exit_status |-> 0], [exit_status |-> 1, command |-> "foo"],
          [metrics |-> "m", elapsed |-> "own"]}

\* the values a function may return, by type: the items of a list, a
\* generator or a tuple, the dict, nothing more for None, a str or an int
Results ==
    [type : {"list", "generator", "tuple"}, items : ListsUpTo(MaxItems),
     dict : {<<>>}]
        \cup [type : {"dict"}, items : {<<>>}, dict : Dicts]
        \cup [type : {"NoneType", "str", "int"}, items : {<<>>}, dict : {<<>>}]

\* the keyword arguments of the call
KeywordArgs == SUBSET {"no_exec", "plot"}

\* a report written before the call
OldReport == [children |-> <<"old">>, elapsed |-> Elapsed, date |-> 0]

WrapperInit ==
    /\ inv = 1
    /\ kwargs \in KeywordArgs
    /\ EmptyCampaign
    /\ HostIdle
    /\ CampaignIdle
    /\ funcResult \in Results
    /\ yamlFile \in {<<>>, <<OldReport>>}
    /\ outcome = NoOutcome

\* the call of the function under write_yaml_report
CallWrapped ==
    /\ outcome = NoOutcome
    /\ LET r == Wrapper(funcResult)
       IN  IF r.err # "none"
           THEN /\ outcome' = [state |-> "raised", report |-> <<>>, error |-> r.err]
                /\ UNCHANGED yamlFile
           ELSE /\ outcome' = [state |-> "returned", report |-> r.report,
                                error |-> "none"]
                /\ yamlFile' = IF WritesReport THEN Append(yamlFile, r.report)
                               ELSE yamlFile
    /\ UNCHANGED <<funcResult, driverVars, hostVars, campaignVars>>

WrapperNext == CallWrapped

WrapperSpec == WrapperInit /\ [][WrapperNext]_vars

---------------------------------------------------------------------------
(* Properties                                                              *)

AtCategory == Running /\ Len(Top.path) = CategoryDepth

\* a report exists at every node of the tree: the campaign report is the
\* last one an execution writes
CompleteTree == <<>> \in DOMAIN report

LogOf(op) == SelectSeq(log, LAMBDA e : e.op = op)

HasPlaceholder(args) ==
    \E i \in 1..Len(args) : "{outdir}" \in Range(args[i])

\* C1: an execution started on a campaign directory that holds a complete
\* tree of reports spawns no process.
C1_IdempotentExecute ==
    (Running /\ kwargs = Execute /\ CompleteTree) => LogOf("spawn") = <<>>

\* C2: after an execution that ended with an exception, an execution does
\* not spawn the commands of a category whose report is already written.
C2_ResumeSkipsCheckpointed ==
    (Running /\ kwargs = Execute /\ prevAborted /\ Top.pc = "wait")
        => Top.path \notin DOMAIN report

\* C3: the children of a report that is written never change afterwards.
C3_ChildrenImmutable ==
    [][\A p \in DOMAIN report :
          /\ p \in DOMAIN report'
          /\ report'[p].children = report[p].children]_vars

\* C4: re-extraction spawns no process, calls no pre_execute hook and
\* creates no run directory; the runs a category processes are the children
\* of its report, each in a run directory that exists.
C4_ReExtractReusesRuns ==
    [][kwargs' = ReExtract =>
          /\ runDirs' = runDirs
          /\ uuid' = uuid
          /\ \A k \in 1..Len(log') :
                log'[k].op \notin {"mkdir", "pre_execute", "spawn", "exit"}
          /\ (AtCategory' /\ Top'.pc \in {"child", "gather", "done"}) =>
                /\ Top'.runs = SubSeq(report'[Top'.path].children, 1, Len(Top'.runs))
                /\ Top'.pc # "child" => Top'.runs = report'[Top'.path].children
                /\ \A i \in 1..Len(Top'.runs) :
                      [cat |-> Top'.path, dir |-> Top'.runs[i]] \in runDirs'
                /\ \A i \in 1..Len(Top'.runs) :
                      \E k \in 1..Len(log') :
                          /\ log'[k].op = "extract"
                          /\ log'[k].at = [cat |-> Top'.path, dir |-> Top'.runs[i]]
      ]_vars

C4_Witness ==
    /\ AtCategory /\ kwargs = ReExtract /\ Top.pc = "done"
    /\ Len(Top.runs) = 2

\* the dicts the extractors returned for a run during this invocation
Returned(run) ==
    LET calls == SelectSeq(log, LAMBDA e : e.op = "extract" /\ e.at = run)
    IN  [k \in 1..Len(calls) |-> DictOf(calls[k].arg.metrics)]

\* C5: when a re-extraction of a category is over, its metrics.json holds
\* for every run the metrics the extractors returned in this invocation.
C5_ReExtractTakesEffect ==
    (AtCategory /\ kwargs = ReExtract /\ Top.pc = "done") =>
        /\ Top.path \in DOMAIN metricsJson
        /\ Len(metricsJson[Top.path]) = Len(Top.runs)
        /\ \A i \in 1..Len(Top.runs) :
              metricsJson[Top.path][i].metrics[Category]
                  = MergeMetrics(Returned(RunKey(Top.runs[i])), 1, <<>>)

\* the step in which the call of a category node returns
CategoryReturns == AtCategory /\ Top.pc = "done" /\ stack' # stack

WritesOf(events, path) ==
    SelectSeq(events, LAMBDA e : e.op = "write" /\ e.at = path)

\* hpcbench.yaml of the category is written once, by this step, with the
\* runs processed as children
WritesCategoryReport ==
    /\ Top.path \in DOMAIN report'
    /\ report'[Top.path].children = Top.runs
    /\ report'[Top.path].date = inv
    /\ Len(WritesOf(log', Top.path)) = 1
    /\ log' = Append(log, Event("write", Top.path, Top.runs))

\* C6 as stated: an execution and a re-extraction of a category both end
\* by writing one report of the category, its children being the runs the
\* invocation processed, in that order.
C6_TerminalCheckpoint ==
    [][(CategoryReturns /\ kwargs \in {Execute, ReExtract})
          => WritesCategoryReport]_vars

\* C6 amended: an execution of a category ends by writing one report of
\* the category, its children being the runs it processed in that order; a
\* re-extraction writes no report of the category and leaves the one on
\* disk as it is.
C6_TerminalCheckpointExecute ==
    [][CategoryReturns =>
          /\ kwargs = Execute => WritesCategoryReport /\ Top.runs # <<>>
          /\ kwargs = ReExtract =>
                /\ report' = report
                /\ log' = log
                /\ WritesOf(log, Top.path) = <<>>
                /\ Top.runs = report[Top.path].children]_vars

C6_Witness ==
    /\ ~Running /\ inv = 2 /\ error = "none" /\ kwargs = ReExtract
    /\ \E p \in DOMAIN report :
          /\ Len(p) = CategoryDepth
          /\ report[p].date = 1
          /\ Len(report[p].children) = 2

\* the plot events a plot invocation has to show for a category that is done
PlotCalls(path, benchmark, metrics) ==
    LET plots == benchmark.plots[path[CategoryDepth]]
    IN  [k \in 1..Len(plots) |->
            Event("plot", path, [desc |-> plots[k], metrics |-> metrics[path]])]

\* C7: on a complete tree of reports a plot invocation spawns no process,
\* calls no extractor and leaves every hpcbench.yaml, every metrics.json
\* and the directories as they are; all it does is one plot call per plot
\* of the category, given the content of metrics.json.
C7_PlotReadOnly ==
    [][(kwargs' = Plot /\ CompleteTree) =>
          /\ report' = report
          /\ runReport' = runReport
          /\ metricsJson' = metricsJson
          /\ dirs' = dirs
          /\ runDirs' = runDirs
          /\ \A k \in 1..Len(log') : log'[k].op = "plot"
          /\ (AtCategory' /\ Top'.pc = "done") =>
                SelectSeq(log', LAMBDA e : e.op = "plot" /\ e.at = Top'.path)
                    = PlotCalls(Top'.path, Plugins[plugin'], metricsJson)
      ]_vars

C7_Witness ==
    /\ ~Running /\ inv = 2 /\ kwargs = Plot /\ error = "none" /\ CompleteTree
    /\ Len(log) = Len(PlotsFoo)

\* C8: the exit status of the command is recorded in the report of the
\* run whatever it is; extraction follows for that run, the remaining
\* entries of the category are executed and the metrics are gathered.
C8_ExitStatusRecorded ==
    /\ [](\A k \in 1..Len(log) :
             log[k].op = "exit" =>
                /\ log[k].at \in DOMAIN runReport
                /\ runReport[log[k].at].exit_status = log[k].arg)
    /\ [][(Running /\ Top.pc = "wait" /\ stack' # stack) =>
             /\ Running' /\ Top'.pc = "metrics" /\ error' = "none"]_vars
    /\ []((AtCategory /\ kwargs = Execute /\ Top.pc = "done") =>
             /\ Len(Top.runs) = Cardinality({i \in 1..Len(ExecutionMatrix) :
                                   ExecutionMatrix[i].category = Category})
             /\ \A i \in 1..Len(Top.runs) :
                   /\ Returned(RunKey(Top.runs[i])) # <<>>
                   /\ \E k \in 1..Len(log) :
                         log[k].op = "exit" /\ log[k].at = RunKey(Top.runs[i])
             /\ LogOf("gather")[Len(LogOf("gather"))] =
                    Event("gather", Top.path, Top.runs)
             /\ \A i \in 1..Len(Top.runs) :
                   metricsJson[Top.path][i].exit_status =
                       runReport[RunKey(Top.runs[i])].exit_status)

C8_Witness ==
    /\ AtCategory /\ kwargs = Execute /\ Top.pc = "done"
    /\ Len(Top.runs) = 2
    /\ runReport[RunKey(Top.runs[1])].exit_status = 1
    /\ runReport[RunKey(Top.runs[2])].exit_status = 0

\* C9: no argument of a spawned command holds the placeholder {outdir}.
C9_OutdirSubstituted ==
    \A k \in 1..Len(log) :
        log[k].op = "spawn" => ~HasPlaceholder(log[k].arg.args)

\* what an extractor of the category of the run declares
DeclaredBy(run, k) ==
    ExtractorList(Plugins[plugin].metrics_extractors[run.cat[CategoryDepth]])[k].metrics

Undeclared(decl, items) ==
    {i \in 1..Len(items) : items[i][1] \notin DOMAIN decl}

Mistyped(decl, items) ==
    {i \in 1..Len(items) : /\ items[i][1] \in DOMAIN decl
                           /\ items[i][2].type # decl[items[i][1]].type}

\* C10: the dict an extractor returns is checked against what the extractor
\* declares: an undeclared name ends the invocation with the unexpected
\* metric error, a value of another type than declared with the metric type
\* error; the list of metrics written to the report of a run holds one dict
\* per extractor of the category, in their order, every one conforming.
C10_MetricsValidation ==
    /\ \A k \in 1..Len(log) :
          log[k].op = "extract" =>
             LET decl == DeclaredBy(log[k].at, log[k].arg.k)
                 items == log[k].arg.metrics
                 bad == Undeclared(decl, items) \cup Mistyped(decl, items)
             IN  bad # {} =>
                    /\ k = Len(log)
                    /\ ~Running
                    /\ LET first == CHOOSE i \in bad : \A j \in bad : i <= j
                       IN  error = IF first \in Undeclared(decl, items)
                                   THEN "UnexpectedMetric" ELSE "MetricType"
    /\ \A k \in 1..Len(log) :
          (log[k].op = "write_run" /\ log[k].arg = "metrics") =>
             LET run == log[k].at
                 cat == run.cat[CategoryDepth]
                 extractors == ExtractorList(Plugins[plugin].metrics_extractors[cat])
                 written == runReport[run].metrics[cat]
             IN  /\ written = Returned(run)
                 /\ Len(written) = Len(extractors)
                 /\ \A e \in 1..Len(written) :
                       \A n \in DOMAIN written[e] :
                          /\ n \in DOMAIN extractors[e].metrics
                          /\ written[e][n].type = extractors[e].metrics[n].type

C10_Witness ==
    /\ error = "UnexpectedMetric"
    /\ Len(log) >= 2
    /\ log[Len(log)].arg.k = 2
    /\ log[Len(log) - 1].op = "extract"
    /\ \E k \in 1..Len(log) : log[k].op = "write_run" /\ log[k].arg = "metrics"

\* the aliases of a host
Aliases(host_name) == {host_name, "localhost"}

\* a rule matches a host: a 'match' item whose pattern matches one of the
\* aliases, or a 'nodes' item whose host set meets the aliases
RuleMatches(rule, host_name) ==
    \E k \in 1..Len(rule) :
        \/ rule[k][1] = "match" /\ \E a \in Aliases(host_name) : a \in rule[k][2]
        \/ rule[k][1] = "nodes" /\ rule[k][2] \cap Aliases(host_name) # {}

MatchNodesOnly(tags) ==
    \A i \in 1..Len(tags) : \A j \in 1..Len(tags[i][2]) :
        \A k \in 1..Len(tags[i][2][j]) : tags[i][2][j][k][1] \in {"match", "nodes"}

\* C11: when the rules of the tags hold only 'match' and 'nodes' items, the
\* tags of a host are the tag * and the tags one rule of which matches the
\* aliases of the host, and no exception is raised.
C11_TagSelection ==
    (hostChildren # Unset /\ MatchNodesOnly(networkTags)) =>
        /\ hostChildren.err = "none"
        /\ hostChildren.tags =
              {"*"} \cup {networkTags[i][1] : i \in
                             {t \in 1..Len(networkTags) :
                                 \E j \in 1..Len(networkTags[t][2]) :
                                     RuleMatches(networkTags[t][2][j], hostName)}}

\* the rule match '^web.*' for the tag web and the rule nodes {db-01} for
\* the tag db on the host web-01
C11_Witness ==
    /\ hostName = "web-01"
    /\ networkTags = << <<"web", << << <<"match", {"web-01", "web-02"}>> >> >> >>,
                        <<"db", << << <<"nodes", {"db-01"}>> >> >> >> >>
    /\ hostChildren = [tags |-> {"*", "web"}, err |-> "none"]

\* the names of the dicts of a list
NamesOf(metricss) == UNION {DOMAIN metricss[k] : k \in 1..Len(metricss)}

\* the last dict of the list that holds the name
LastWith(metricss, n) ==
    CHOOSE k \in 1..Len(metricss) :
        /\ n \in DOMAIN metricss[k]
        /\ \A l \in (k + 1)..Len(metricss) : n \notin DOMAIN metricss[l]

\* C12: in metrics.json the metrics of a run for a category are one dict:
\* it holds every name one of the dicts of the extractors holds, in the
\* report of the run, with the value of the last dict of the list that
\* holds the name.
C12_MergePolicy ==
    \A p \in DOMAIN metricsJson : \A i \in 1..Len(metricsJson[p]) :
        LET element == metricsJson[p][i]
            written == runReport[[cat |-> p, dir |-> element.id]].metrics
        IN  /\ DOMAIN element.metrics = DOMAIN written
            /\ \A cat \in DOMAIN written :
                  /\ DOMAIN element.metrics[cat] = NamesOf(written[cat])
                  /\ \A n \in NamesOf(written[cat]) :
                        element.metrics[cat][n] =
                            written[cat][LastWith(written[cat], n)][n]

\* two extractors of the category bar: the first returns a and b, the
\* second a
C12_Witness ==
    \E p \in DOMAIN metricsJson :
        /\ p[CategoryDepth] = "bar"
        /\ LET written == runReport[[cat |-> p, dir |-> metricsJson[p][1].id]].metrics.bar
           IN  /\ Len(written) = 2
               /\ written[1] = [a |-> FloatV(11), b |-> IntV(2)]
               /\ written[2] = [a |-> FloatV(1)]
        /\ metricsJson[p][1].metrics.bar = [a |-> FloatV(1), b |-> IntV(2)]

\* the entries of the execution matrix of a category, in their order
EntriesOf(category) ==
    SelectSeq([j \in 1..Len(ExecutionMatrix) |-> j],
              LAMBDA j : ExecutionMatrix[j].category = category)

\* the run directories the invocation created in a category, in the order
\* of their creation, each with the entry it was created for
Created(path) ==
    SelectSeq(log, LAMBDA e : e.op = "mkdir" /\ e.at.cat = path)

\* C13: when an execution of a category is over, its metrics.json holds
\* one element per entry of the execution matrix of the category, in the
\* order the runs were executed; the id of an element is the run
\* directory, its metas those of the entry, and it holds neither category
\* nor command.
C13_AggregatedShape ==
    (AtCategory /\ kwargs = Execute /\ Top.pc = "done") =>
        /\ Top.path \in DOMAIN metricsJson
        /\ LET doc == metricsJson[Top.path]
               entries == EntriesOf(Category)
               created == Created(Top.path)
           IN  /\ Len(doc) = Len(entries)
               /\ Len(created) = Len(entries)
               /\ \A i \in 1..Len(doc) :
                     /\ created[i].arg = entries[i]
                     /\ doc[i].id = created[i].at.dir
                     /\ doc[i].metas = ExecutionMatrix[entries[i]].metas
                     /\ "category" \notin DOMAIN doc[i]
                     /\ "command" \notin DOMAIN doc[i]

C13_Witness ==
    /\ AtCategory /\ kwargs = Execute /\ Top.pc = "done"
    /\ Category = "foo"
    /\ Len(metricsJson[Top.path]) = 2
    /\ metricsJson[Top.path][1].metas = 1
    /\ metricsJson[Top.path][2].metas = 4

\* the exceptions of MetricsDriver
FatalErrors == {"NoExtractor", "UnexpectedMetric", "MetricType"}

\* an execution that ended with an exception of MetricsDriver
ExecuteFailed == ~Running /\ kwargs = Execute /\ error \in FatalErrors

IsAncestorOrSelf(p, q) == Len(p) <= Len(q) /\ SubSeq(q, 1, Len(p)) = p

\* the run the invocation created last
LastRun == LogOf("mkdir")[Len(LogOf("mkdir"))].at

\* C14: an exception of MetricsDriver during an execution ends the
\* invocation in that step: no file and no directory changes in the step or
\* before the next invocation, no command is spawned after it, no report of
\* the category or of a node above it and no metrics.json of the category
\* is written by the invocation, and the report of the failing run is the
\* one ExecutionDriver wrote, without metrics.
C14_FailureAtomicity ==
    /\ [][(Running /\ kwargs = Execute /\ error' # "none") =>
             /\ error' \in FatalErrors
             /\ ~Running'
             /\ report' = report
             /\ runReport' = runReport
             /\ metricsJson' = metricsJson
             /\ dirs' = dirs
             /\ runDirs' = runDirs
             /\ \A k \in (Len(log) + 1)..Len(log') : log'[k].op = "extract"]_vars
    /\ [][ExecuteFailed => inv' = inv + 1]_vars
    /\ [](ExecuteFailed =>
             /\ Len(LogOf("spawn")) = Len(LogOf("mkdir"))
             /\ \A k \in 1..Len(log) :
                   /\ log[k].op = "write" =>
                         ~IsAncestorOrSelf(log[k].at, LastRun.cat)
                   /\ log[k].op = "gather" => log[k].at # LastRun.cat
                   /\ (log[k].op = "write_run" /\ log[k].at = LastRun)
                         => log[k].arg = "execution"
             /\ LastRun \in DOMAIN runReport
             /\ {"exit_status", "command"} \subseteq DOMAIN runReport[LastRun]
             /\ runReport[LastRun].date = inv
             /\ "metrics" \notin DOMAIN runReport[LastRun])

\* the second extractor of bar returns an undeclared name after the
\* category foo was executed
C14_Witness ==
    /\ ExecuteFailed
    /\ error = "UnexpectedMetric"
    /\ LastRun.cat[CategoryDepth] = "bar"
    /\ Len(SelectSeq(log, LAMBDA e : e.op = "extract" /\ e.at = LastRun)) = 2
    /\ \E p \in DOMAIN report :
          Len(p) = CategoryDepth /\ report[p].date = inv

MinimumFields == {"children", "elapsed", "date"}

\* C15: every hpcbench.yaml, of a node or of a run, holds the keys
\* children, elapsed and date.
C15_MinimumFields ==
    /\ \A p \in DOMAIN report : MinimumFields \subseteq DOMAIN report[p]
    /\ \A run \in DOMAIN runReport : MinimumFields \subseteq DOMAIN runReport[run]

\* the campaign directory holds a copy of the campaign file
HoldsCopy(d) == CampaignYaml(d) \in DOMAIN files

\* C16: a copy of the campaign file in a campaign directory is never
\* written again; a CampaignDriver constructed for a directory that holds
\* a copy has the configuration of the copy; a CampaignDriver given a
\* campaign file and a campaign path raises, nothing being read or written.
C16_RootArtifact ==
    [][/\ \A d \in CampaignDirs :
             HoldsCopy(d) =>
                /\ HoldsCopy(d)'
                /\ files'[CampaignYaml(d)] = files[CampaignYaml(d)]
                /\ (driver'.state = "ready" /\ driver'.campaign_path = d) =>
                      driver'.campaign = files[CampaignYaml(d)]
       /\ (driver' # driver /\ driver'.args[1] # "None" /\ driver'.args[2] # "None") =>
             /\ driver'.state = "raised"
             /\ driver'.error = "EitherXor"
             /\ driver'.campaign = NoConfig
             /\ files' = files
      ]_vars

\* the results the wrapper takes as a list of children, and as a report
IsSequence(result) == result.type \in {"list", "generator"}
IsMapping(result) == result.type = "dict"

\* C17: a list or generator result gives the report {children: the string
\* of each item, in order}, a dict result a report with its own keys, both
\* with elapsed and date; a result of another type raises the unexpected
\* data type exception and nothing is written; the report is written to
\* hpcbench.yaml unless no_exec is among the keyword arguments.
C17_WrapperRule ==
    [][(outcome = NoOutcome /\ outcome' # NoOutcome) =>
          LET r == outcome'.report
          IN  /\ IsSequence(funcResult) =>
                    /\ outcome'.state = "returned"
                    /\ DOMAIN r = {"children", "elapsed", "date"}
                    /\ Len(r.children) = Len(funcResult.items)
                    /\ \A i \in 1..Len(funcResult.items) :
                          r.children[i] = Str(funcResult.items[i])
              /\ IsMapping(funcResult) =>
                    /\ outcome'.state = "returned"
                    /\ DOMAIN r = DOMAIN funcResult.dict \cup {"elapsed", "date"}
                    /\ \A k \in DOMAIN funcResult.dict \ {"elapsed", "date"} :
                          r[k] = funcResult.dict[k]
              /\ (IsSequence(funcResult) \/ IsMapping(funcResult)) =>
                    /\ r.elapsed = Elapsed
                    /\ r.date = inv
                    /\ yamlFile' = IF "no_exec" \in kwargs THEN yamlFile
                                   ELSE Append(yamlFile, r)
              /\ ~(IsSequence(funcResult) \/ IsMapping(funcResult)) =>
                    /\ outcome'.state = "raised"
                    /\ outcome'.error = "UnexpectedDataType"
                    /\ yamlFile' = yamlFile
      ]_vars

\* a generator of a number and a string, called without no_exec over a
\* report written before
C17_Witness ==
    /\ outcome.state = "returned"
    /\ funcResult.type = "generator"
    /\ funcResult.items = <<IntV(1), StrV(1)>>
    /\ kwargs = {"plot"}
    /\ Len(yamlFile) = 2
    /\ yamlFile[2] = [children |-> <<"1", "a">>, elapsed |-> Elapsed, date |-> 1]

\* the directory of a node, from the directory the driver is called in
NodeDir(path) == <<CampaignPath>> \o path

\* the steps of a category call made inside the pushd of a run
RunPcs == {"pre_execute", "spawn", "wait", "metrics"}

\* C18: during the call of a node the working directory is the directory
\* of the node, also when the call is about to return and after each of its
\* children returned; during a run it is the run directory; the pushd
\* around the call goes back to the directory of the caller; once the
\* invocation is over, by a return or by an exception raised at any depth,
\* it is the directory the driver was called in.
C18_ScopedCwd ==
    /\ ~Running => cwd = <<>>
    /\ Running =>
          /\ cwd = IF Top.pc \in RunPcs
                   THEN Append(NodeDir(Top.path), Top.runs[Len(Top.runs)])
                   ELSE NodeDir(Top.path)
          /\ \A k \in 1..Len(stack) :
                stack[k].back = IF k = 1 THEN <<>> ELSE NodeDir(stack[k - 1].path)

\* an exception raised in a run directory, five directories below the one
\* the driver was called in
C18_Witness ==
    /\ ~Running
    /\ kwargs = Execute
    /\ error = "NoExtractor"
    /\ LogOf("mkdir") # <<>>
    /\ cwd = <<>>

\* the calls on the stack of a campaign, host, tag or benchmark node
EnumeratorFrames == {k \in 1..Len(stack) : Len(stack[k].path) < CategoryDepth}

\* the step writes the report of a campaign, host, tag or benchmark node
WritesNodeReport ==
    /\ Len(log') = Len(log) + 1
    /\ log'[Len(log')].op = "write"
    /\ Len(log'[Len(log')].at) < CategoryDepth

\* C19: a campaign, host, tag or benchmark node called in a directory that
\* holds a report iterates over the children of that report, otherwise over
\* its freshly computed children; it calls them one after the other in the
\* order of that list; the report it writes holds the list in that order,
\* which is the list of the report it replaces when there was one.
C19_ResumeOrder ==
    /\ [](\A k \in EnumeratorFrames :
            LET f == stack[k]
            IN  /\ IF f.path \in DOMAIN report
                   THEN f.children = report[f.path].children
                   ELSE f.children \in Children(f.path)
                /\ f.yielded = SubSeq(f.children, 1, f.i - 1)
                /\ k < Len(stack) =>
                      stack[k + 1].path = Append(f.path, f.children[f.i]))
    /\ [][WritesNodeReport =>
            /\ Top.pc = "done"
            /\ log'[Len(log')].at = Top.path
            /\ Top.i = Len(Top.children) + 1
            /\ report'[Top.path].children = Top.children
            /\ Top.path \in DOMAIN report =>
                  report'[Top.path].children = report[Top.path].children]_vars

\* a second execution in which a node whose directory holds the report of
\* the first, and whose children could be computed in another order, calls
\* the second child of that report
C19_Witness ==
    /\ Running
    /\ inv = 2
    /\ kwargs = Execute
    /\ \E k \in EnumeratorFrames :
          LET f == stack[k]
          IN  /\ k < Len(stack)
              /\ f.path \in DOMAIN report
              /\ report[f.path].date = 1
              /\ f.i = 2
              /\ Children(f.path) \ {f.children} # {}

\* the event before the k-th is of the same run and one of the given steps
Follows(k, ops) ==
    /\ k > 1
    /\ log[k - 1].op \in ops
    /\ log[k - 1].at = log[k].at

\* the event before the k-th is the write of the report of the execution of
\* the same run, or a call of an extractor for it
FollowsExecution(k) ==
    /\ Follows(k, {"write_run", "extract"})
    /\ log[k - 1].op = "write_run" => log[k - 1].arg = "execution"

\* the k-th event is the write of the report of a run of the category after
\* its extraction, the run being the one of the j-th entry
RunEnd(k, cat, j) ==
    /\ k >= 1
    /\ log[k].op = "write_run"
    /\ log[k].arg = "metrics"
    /\ log[k].at.cat = cat
    /\ \E m \in 1..(k - 1) :
          log[m].op = "mkdir" /\ log[m].at = log[k].at /\ log[m].arg = j

\* the k-th event, a run directory made, is in its place: it is made for an
\* entry of the category, the first of them at the start of the call of the
\* category, another one once the run of the entry before it is over
RunInOrder(k) ==
    LET cat == log[k].at.cat
        entries == EntriesOf(cat[CategoryDepth])
    IN  \E p \in 1..Len(entries) :
           /\ entries[p] = log[k].arg
           /\ IF p = 1
              THEN k = 1 \/ log[k - 1].op = "write"
              ELSE RunEnd(k - 1, cat, entries[p - 1])

\* the k-th event, metrics.json written, comes after the last run
GatherInOrder(k) ==
    LET cat == log[k].at
        entries == EntriesOf(cat[CategoryDepth])
    IN  /\ entries # <<>>
        /\ Len(log[k].arg) = Len(entries)
        /\ RunEnd(k - 1, cat, entries[Len(entries)])

\* C20: in an execution every run directory is made for an entry of the
\* category, in the order of the execution matrix; in a run the hook
\* pre_execute is called, then the process is spawned, then it exits, then
\* the report of the execution is written, then the extractors are called,
\* then the report is written again; the next run starts after that, so no
\* process is spawned while another one lives; metrics.json is written
\* after the last run and the report of the category right after it.
C20_StepOrder ==
    kwargs = Execute =>
        \A k \in 1..Len(log) :
            LET e == log[k]
            IN  CASE e.op = "mkdir" -> RunInOrder(k)
                  [] e.op = "pre_execute" -> Follows(k, {"mkdir"})
                  [] e.op = "spawn" ->
                        /\ Follows(k, {"pre_execute"})
                        /\ IF k = Len(log)
                           THEN Running /\ Top.pc = "wait"
                           ELSE log[k + 1].op = "exit" /\ log[k + 1].at = e.at
                  [] e.op = "exit" -> Follows(k, {"spawn"})
                  [] e.op = "extract" -> FollowsExecution(k)
                  [] e.op = "write_run" ->
                        IF e.arg = "execution" THEN Follows(k, {"exit"})
                        ELSE FollowsExecution(k)
                  [] e.op = "gather" -> GatherInOrder(k)
                  [] e.op = "write" ->
                        (Len(e.at) = CategoryDepth
                            /\ EntriesOf(e.at[CategoryDepth]) # <<>>)
                        => Follows(k, {"gather"})
                  [] OTHER -> FALSE

\* an execution that is over, in which the two entries of a category were
\* run around an entry of another category, both categories done
C20_Witness ==
    /\ ~Running
    /\ kwargs = Execute
    /\ error = "none"
    /\ Len(LogOf("spawn")) = Len(ExecutionMatrix)
    /\ \E k \in 1..Len(log) : log[k].op = "gather" /\ Len(log[k].arg) = 2
    /\ \E k \in 1..Len(log) : log[k].op = "extract" /\ log[k].arg.k = 2

\* the modes HostDriver.children knows
KnownModes == {"match", "nodes"}

\* a rule holds an item of a mode that is not known
HasUnknownMode(rule) == \E k \in 1..Len(rule) : rule[k][1] \notin KnownModes

\* the j-th rule of a tag is reached: no rule of the tag before it matches
RuleReached(configs, j, host_name) ==
    \A l \in 1..(j - 1) : ~RuleMatches(configs[l], host_name)

\* a rule with an item of an unknown mode is reached in one of the tags
UnknownModeReached(tags, host_name) ==
    \E i \in 1..Len(tags) : \E j \in 1..Len(tags[i][2]) :
        /\ HasUnknownMode(tags[i][2][j])
        /\ RuleReached(tags[i][2], j, host_name)

\* C21: the rules of a tag are read in their order up to the first one that
\* matches; a rule with an item of an unknown mode raises the exception of
\* the unknown association when it is reached, whatever the other tags, and
\* raises nothing when a rule of the tag before it matches; without such an
\* exception every tag is evaluated and the tags of the host are the tag *
\* and the tags one rule of which matches.
C21_ShortCircuit ==
    hostChildren # Unset =>
        IF UnknownModeReached(networkTags, hostName)
        THEN hostChildren.err = "UnknownTagAssociation"
        ELSE /\ hostChildren.err = "none"
             /\ hostChildren.tags =
                   {"*"} \cup {networkTags[i][1] : i \in
                                  {t \in 1..Len(networkTags) :
                                      \E j \in 1..Len(networkTags[t][2]) :
                                          RuleMatches(networkTags[t][2][j], hostName)}}

\* the child of the node at path holds a report in a directory that exists:
\* a node directory, or a run directory for a category
ChildHoldsReport(path, child) ==
    IF Len(path) < CategoryDepth
    THEN /\ Append(path, child) \in dirs
         /\ Append(path, child) \in DOMAIN report
    ELSE /\ [cat |-> path, dir |-> child] \in runDirs
         /\ [cat |-> path, dir |-> child] \in DOMAIN runReport

\* the report of the child of the node at path is written by one of the
\* events before the k-th
ChildWrittenBefore(k, path, child) ==
    \E m \in 1..(k - 1) :
        IF Len(path) < CategoryDepth
        THEN log[m].op = "write" /\ log[m].at = Append(path, child)
        ELSE log[m].op = "write_run" /\ log[m].at = [cat |-> path, dir |-> child]

\* C22: whatever the invocations made, aborted ones included, every child
\* listed by the report of a node has a directory that holds a report, and
\* an invocation writes the report of a node after the reports of all the
\* children it lists.
C22_CheckpointClosure ==
    /\ \A path \in DOMAIN report :
          /\ path \in dirs
          /\ \A i \in 1..Len(report[path].children) :
                ChildHoldsReport(path, report[path].children[i])
    /\ \A k \in 1..Len(log) :
          log[k].op = "write" =>
              \A i \in 1..Len(log[k].arg) :
                  ChildWrittenBefore(k, log[k].at, log[k].arg[i])

\* a second execution aborted by MetricsDriver, in a campaign whose nodes
\* hold the reports of a first execution, a category among them with two
\* runs
C22_Witness ==
    /\ ExecuteFailed
    /\ inv = 2
    /\ <<>> \in DOMAIN report
    /\ \E path \in DOMAIN report :
          /\ Len(path) = CategoryDepth
          /\ Len(report[path].children) = 2
    /\ \E k \in 1..Len(log) : log[k].op = "write"

====
